---- MODULE Spec2Model ----
(***************************************************************************)
(* A model of the angular-storyblok library:                               *)
(*   - SbBlokDirective   (projects/angular-storyblok/src/lib/              *)
(*                        sb-blok.directive.ts)                            *)
(*   - LivePreviewService, withLivePreview (lib/live-preview.ts)           *)
(*   - StoryblokService.enableLivePreview (lib/storyblok.service.ts and    *)
(*     its deprecated asynchronous form)                                   *)
(* Promises are modelled by the point at which they are settled: the code  *)
(* up to an await belongs to the action that calls the function, the code  *)
(* after it to the action that settles the awaited promise.                *)
(***************************************************************************)
EXTENDS Naturals, Sequences, FiniteSets

VARIABLES
  \* ---- environment
  ngDevMode,            \* Angular's development-mode flag
  \* ---- SbBlokDirective
  components,           \* inject(STORYBLOK_COMPONENTS, {optional: true})
  sbBlok,               \* the input signal's current value
  effectDirty,          \* the effect has not yet run for the current value
  componentCache,       \* Map<string, Type>
  viewContainer,        \* the components held by the ViewContainerRef
  currentComponentRef,  \* index into viewContainer, 0 for null
  currentComponentName, \* string, NullName for null
  pendingLoadId,
  isDestroyed,
  loads,                \* loads[i]: the loadAndRenderComponent call with loadId i
  console,              \* what the last step wrote to the console
  lastOp                \* the last step taken: the operation, the loader it
                        \* invoked, the load it settled, the components it
                        \* removed from the view container

VARIABLES
  \* ---- LivePreviewService and StoryblokService
  platformId,           \* inject(PLATFORM_ID): "browser" or "server"
  isEnabled,            \* inject(LIVE_PREVIEW_ENABLED, {optional: true}) ?? false
  config,               \* inject(LIVE_PREVIEW_CONFIG, {optional: true})
  bridge,               \* LivePreviewService.bridge: an instance id, 0 for null
  bridgePromise,        \* "null", "pending", "fulfilled" or "rejected"
  bridgeImports,        \* import('@storyblok/preview-bridge') started by loadBridge
  bridgeInstances,      \* bridges constructed by loadBridge
  awaiting,             \* callbacks of the enable() calls suspended at their await
  legacyAwaiting,       \* the same for the deprecated enableLivePreview()
  legacyImports,        \* imports started by the deprecated enableLivePreview()
  sdkBridgeCalls,       \* useStoryblokBridge calls made by enableLivePreview()
  bridgesConstructed,   \* all bridge instances constructed; ids are 1..this
  listeners,            \* the handlers registered with bridge.on, in order
  calls,                \* API calls made so far
  lastEvent,            \* the last bridge event and what each handler did with it
  liveOp                \* the last step taken and how the call ended

VARIABLES
  \* ---- SbRichTextComponent
  doc,                  \* the doc input: a rich text document, or NullDoc
  segments,             \* the value of the computed signal `segments`
  segmentsFresh         \* `segments` has been computed for the current doc

richVars == <<doc, segments, segmentsFresh>>

liveVars == <<platformId, isEnabled, config, bridge, bridgePromise, bridgeImports,
              bridgeInstances, awaiting, legacyAwaiting, legacyImports,
              sdkBridgeCalls, bridgesConstructed, listeners, calls, lastEvent,
              liveOp>>

blokVars == <<components, sbBlok, effectDirty, componentCache, viewContainer,
              currentComponentRef, currentComponentName, pendingLoadId,
              isDestroyed, loads, console, lastOp>>

vars == <<ngDevMode, blokVars, liveVars, richVars>>

(***************************************************************************)
(* Bounds                                                                  *)
(***************************************************************************)
MaxLoads == 2   \* loadAndRenderComponent calls per directive instance
MaxUid == 2     \* distinct bloks per component name
MaxCalls == 2   \* calls of enable() and enableLivePreview()
MaxNodes == 3   \* top-level nodes of a rich text document
MaxChildren == 1 \* children of a paragraph node

(***************************************************************************)
(* Values                                                                  *)
(***************************************************************************)
NullName == "<null>"

\* The registry of the demo application, one entry made eager.
Registry ==
  [teaser |-> [lazy |-> TRUE,  type |-> "TeaserComponent"],
   grid   |-> [lazy |-> TRUE,  type |-> "GridComponent"],
   hero   |-> [lazy |-> FALSE, type |-> "HeroComponent"]]

NoRegistry == [provided |-> FALSE, entries |-> <<>>]
WithRegistry == [provided |-> TRUE, entries |-> Registry]

\* "ghost" is registered nowhere; "" is a blok without a component field.
ComponentNames == {"teaser", "grid", "hero", "ghost", ""}

NullBlok == [nil |-> "null", component |-> "", uid |-> 0]
UndefinedBlok == [nil |-> "undefined", component |-> "", uid |-> 0]
BlokObjects == [nil : {"object"}, component : ComponentNames, uid : 1..MaxUid]
Bloks == {NullBlok, UndefinedBlok} \cup BlokObjects

\* !blok?.component
NoComponent(blok) == blok.nil # "object" \/ blok.component = ""

\* this.components[blok.component]
HasEntry(name) == components.provided /\ name \in DOMAIN components.entries

isComponentLoader(entry) == entry.lazy

(***************************************************************************)
(* The rendered view: viewContainer, currentComponentRef and               *)
(* currentComponentName as one record, so that the private methods are     *)
(* functions of it.                                                        *)
(***************************************************************************)
View == [container |-> viewContainer, ref |-> currentComponentRef,
         name |-> currentComponentName]

\* cleanup without the two assignments of null
cleanup_keepsRef(v) == [container |-> <<>>, ref |-> v.ref, name |-> v.name]

\* cleanup without viewContainerRef.clear()
cleanup_noClear(v) == [container |-> v.container, ref |-> 0, name |-> NullName]

cleanup(v) == [container |-> <<>>, ref |-> 0, name |-> NullName]

updateComponent(v, ref, blok) ==
  [v EXCEPT !.container[ref].blok = blok]

createAndRenderComponent(v, Component, blok) ==
  LET created == Append(v.container, [component |-> Component, blok |-> NullBlok])
      ref == Len(created)
  IN updateComponent([container |-> created, ref |-> ref, name |-> blok.component],
                     ref, blok)

SetView(v) ==
  /\ viewContainer' = v.container
  /\ currentComponentRef' = v.ref
  /\ currentComponentName' = v.name

InFlight == {i \in 1..Len(loads) : loads[i].status = "pending"}

CacheSet(cache, name, Component) ==
  [n \in DOMAIN cache \cup {name} |-> IF n = name THEN Component ELSE cache[n]]

(***************************************************************************)
(* loadAndRenderComponent up to its await: the load id, the cache lookup   *)
(* and, on a hit, the rest of the method, which then runs without          *)
(* yielding. v is the view after handleBlokChange's cleanup.               *)
(***************************************************************************)
loadAndRenderComponent(v, componentName, blok) ==
  LET loadId == pendingLoadId + 1
      cached == componentName \in DOMAIN componentCache
  IN /\ pendingLoadId' = loadId
     /\ loads' = Append(loads, [componentName |-> componentName,
                                status |-> IF cached THEN "cached" ELSE "pending"])
     /\ IF cached
          THEN SetView(IF sbBlok.component = componentName /\ ~NoComponent(sbBlok)
                         THEN createAndRenderComponent(v, componentCache[componentName], sbBlok)
                         ELSE v)
          ELSE SetView(v)
     /\ lastOp' = [op |-> "effect", loader |-> IF cached THEN NullName ELSE componentName,
                   loadId |-> loadId, cleared |-> Len(viewContainer)]
     /\ console' = ""
     /\ UNCHANGED componentCache

(***************************************************************************)
(* handleBlokChange(blok), called by the effect with blok = sbBlok().      *)
(***************************************************************************)
handleBlokChange(blok) ==
  IF isDestroyed
    THEN /\ lastOp' = [op |-> "effect", loader |-> NullName, loadId |-> 0, cleared |-> 0]
         /\ console' = ""
         /\ UNCHANGED <<viewContainer, currentComponentRef, currentComponentName,
                        pendingLoadId, loads, componentCache>>
  ELSE IF NoComponent(blok) \/ ~components.provided
    THEN /\ SetView(cleanup(View))
         /\ lastOp' = [op |-> "effect", loader |-> NullName, loadId |-> 0,
                       cleared |-> Len(viewContainer)]
         /\ console' = ""
         /\ UNCHANGED <<pendingLoadId, loads, componentCache>>
  ELSE IF ~HasEntry(blok.component)
    THEN /\ SetView(cleanup(View))
         /\ lastOp' = [op |-> "effect", loader |-> NullName, loadId |-> 0,
                       cleared |-> Len(viewContainer)]
         /\ console' = IF ngDevMode THEN "warn" ELSE ""
         /\ UNCHANGED <<pendingLoadId, loads, componentCache>>
  ELSE IF currentComponentRef # 0 /\ currentComponentName = blok.component
    THEN /\ SetView(updateComponent(View, currentComponentRef, blok))
         /\ lastOp' = [op |-> "effect", loader |-> NullName, loadId |-> 0, cleared |-> 0]
         /\ console' = ""
         /\ UNCHANGED <<pendingLoadId, loads, componentCache>>
  ELSE IF isComponentLoader(components.entries[blok.component])
    THEN /\ pendingLoadId < MaxLoads
         /\ loadAndRenderComponent(cleanup(View), blok.component, blok)
  ELSE /\ SetView(createAndRenderComponent(cleanup(View),
                    components.entries[blok.component].type, blok))
       /\ lastOp' = [op |-> "effect", loader |-> NullName, loadId |-> 0,
                       cleared |-> Len(viewContainer)]
       /\ console' = ""
       /\ UNCHANGED <<pendingLoadId, loads, componentCache>>

(***************************************************************************)
(* Actions of the directive                                                *)
(***************************************************************************)
\* The host writes the sbBlok input; the effect is scheduled.
SetInput(blok) ==
  /\ ~isDestroyed
  /\ blok # sbBlok
  /\ sbBlok' = blok
  /\ effectDirty' = TRUE
  /\ lastOp' = [op |-> "setInput", loader |-> NullName, loadId |-> 0, cleared |-> 0]
  /\ console' = ""
  /\ UNCHANGED <<richVars, liveVars, ngDevMode, components, componentCache, viewContainer,
                 currentComponentRef, currentComponentName, pendingLoadId,
                 isDestroyed, loads>>

\* The effect of the constructor runs.
RunEffect ==
  /\ effectDirty
  /\ effectDirty' = FALSE
  /\ handleBlokChange(sbBlok)
  /\ UNCHANGED <<richVars, liveVars, ngDevMode, components, sbBlok, isDestroyed>>

\* The continuation without the comparison of loadId with pendingLoadId.
LoaderResolves_noIdCheck(i) ==
  /\ i \in InFlight
  /\ LET componentName == loads[i].componentName
         Component == components.entries[componentName].type
     IN /\ componentCache' = CacheSet(componentCache, componentName, Component)
        /\ loads' = [loads EXCEPT ![i].status = "loaded"]
        /\ IF ~isDestroyed
              /\ ~NoComponent(sbBlok) /\ sbBlok.component = componentName
             THEN SetView(createAndRenderComponent(View, Component, sbBlok))
             ELSE SetView(View)
        /\ lastOp' = [op |-> "loaderResolved", loader |-> NullName, loadId |-> i, cleared |-> 0]
        /\ console' = ""
  /\ UNCHANGED <<richVars, liveVars, ngDevMode, components, sbBlok, effectDirty, pendingLoadId, isDestroyed>>

\* The loader's promise of load i is fulfilled: loadAndRenderComponent
\* continues after its await.
LoaderResolves(i) ==
  /\ i \in InFlight
  /\ LET componentName == loads[i].componentName
         Component == components.entries[componentName].type
     IN /\ componentCache' = CacheSet(componentCache, componentName, Component)
        /\ loads' = [loads EXCEPT ![i].status = "loaded"]
        /\ IF ~isDestroyed /\ i = pendingLoadId
              /\ ~NoComponent(sbBlok) /\ sbBlok.component = componentName
             THEN SetView(createAndRenderComponent(View, Component, sbBlok))
             ELSE SetView(View)
        /\ lastOp' = [op |-> "loaderResolved", loader |-> NullName, loadId |-> i, cleared |-> 0]
        /\ console' = ""
  /\ UNCHANGED <<richVars, liveVars, ngDevMode, components, sbBlok, effectDirty, pendingLoadId, isDestroyed>>

\* The catch block without its return: the method goes on to render.
LoaderRejects_noReturn(i) ==
  /\ i \in InFlight
  /\ loads' = [loads EXCEPT ![i].status = "failed"]
  /\ lastOp' = [op |-> "loaderRejected", loader |-> NullName, loadId |-> i, cleared |-> 0]
  /\ console' = "error"
  /\ IF ~isDestroyed /\ i = pendingLoadId
        /\ ~NoComponent(sbBlok) /\ sbBlok.component = loads[i].componentName
       THEN SetView(createAndRenderComponent(View, "undefined", sbBlok))
       ELSE SetView(View)
  /\ UNCHANGED <<richVars, liveVars, ngDevMode, components, sbBlok, effectDirty, componentCache,
                 pendingLoadId, isDestroyed>>

\* The loader's promise of load i is rejected: the catch block.
LoaderRejects(i) ==
  /\ i \in InFlight
  /\ loads' = [loads EXCEPT ![i].status = "failed"]
  /\ lastOp' = [op |-> "loaderRejected", loader |-> NullName, loadId |-> i, cleared |-> 0]
  /\ console' = "error"
  /\ UNCHANGED <<richVars, liveVars, ngDevMode, components, sbBlok, effectDirty, componentCache,
                 viewContainer, currentComponentRef, currentComponentName,
                 pendingLoadId, isDestroyed>>

\* destroyRef.onDestroy
Destroy ==
  /\ ~isDestroyed
  /\ isDestroyed' = TRUE
  /\ SetView(cleanup(View))
  /\ lastOp' = [op |-> "destroy", loader |-> NullName, loadId |-> 0,
                cleared |-> Len(viewContainer)]
  /\ console' = ""
  /\ UNCHANGED <<richVars, liveVars, ngDevMode, components, sbBlok, effectDirty, componentCache,
                 pendingLoadId, loads>>

(***************************************************************************)
(* Live preview: values                                                    *)
(***************************************************************************)
Callbacks == {"cb1", "cb2"}
Stories == {"story1", "story2"}
\* The events the handlers subscribe to: bridge.on(['published', 'change', 'input'], ...)
EventActions == {"input", "published", "change"}

\* LivePreviewConfig, as far as the service reads it. autoReload is optional.
NullConfig == [provided |-> FALSE, autoReload |-> "undefined"]
EmptyConfig == [provided |-> TRUE, autoReload |-> "undefined"]
Configs == [provided : {TRUE}, autoReload : {"undefined", "true", "false"}]

\* What the application's providers give the two injection tokens.
NoFeature == [enabled |-> FALSE, config |-> NullConfig]
EnabledTokenOnly == [enabled |-> TRUE, config |-> NullConfig]

\* withLivePreview(config?): LIVE_PREVIEW_ENABLED = true, LIVE_PREVIEW_CONFIG = config ?? {}
withLivePreview(cfg) ==
  [enabled |-> TRUE, config |-> IF cfg.provided THEN cfg ELSE EmptyConfig]

Providers ==
  {NoFeature, EnabledTokenOnly} \cup {withLivePreview(c) : c \in Configs \cup {NullConfig}}

\* get isBrowser(), in both services
isBrowser_always == TRUE

isBrowser == platformId = "browser"

\* this.config?.autoReload ?? true
autoReload_strict(cfg) == cfg.provided /\ cfg.autoReload = "true"

autoReload(cfg) ==
  IF cfg.provided /\ cfg.autoReload # "undefined" THEN cfg.autoReload = "true" ELSE TRUE

(***************************************************************************)
(* LivePreviewService.enable up to its await: where the checks send it.    *)
(***************************************************************************)
EnableEntry_silent ==
  IF ~isBrowser THEN "return"
  ELSE IF ~isEnabled THEN "return"
  ELSE "getBridge"

EnableEntry_noEnabledCheck ==
  IF ~isBrowser THEN "return" ELSE "getBridge"

EnableEntry ==
  IF ~isBrowser THEN "return"
  ELSE IF ~isEnabled THEN (IF ngDevMode THEN "throw" ELSE "return")
  ELSE "getBridge"

\* getBridge: which of its four returns is taken.
getBridge_noPromiseCheck ==
  IF ~isBrowser THEN "null"
  ELSE IF bridge # 0 THEN "bridge"
  ELSE "load"

getBridge ==
  IF ~isBrowser THEN "null"
  ELSE IF bridge # 0 THEN "bridge"
  ELSE IF bridgePromise # "null" THEN "promise"
  ELSE "load"

\* What one handler does with one event: the callbacks it invokes (with the
\* story, and whether inside NgZone.run) and the page reloads it asks for.
NoEffect == [invoked |-> <<>>, reloads |-> 0]

\* The handler enable() registers.
handler_noZone(l, action, story) ==
  IF action = "input"
    THEN [invoked |-> <<[callback |-> l.callback, story |-> story, inZone |-> FALSE]>>,
          reloads |-> 0]
  ELSE IF l.autoReload /\ (action = "published" \/ action = "change")
    THEN [invoked |-> <<>>, reloads |-> 1]
  ELSE NoEffect

handler(l, action, story) ==
  IF action = "input"
    THEN [invoked |-> <<[callback |-> l.callback, story |-> story, inZone |-> TRUE]>>,
          reloads |-> 0]
  ELSE IF l.autoReload /\ (action = "published" \/ action = "change")
    THEN [invoked |-> <<>>, reloads |-> 1]
  ELSE NoEffect

\* The handler the deprecated enableLivePreview() registers.
legacyHandler(l, action, story) ==
  IF action = "input"
    THEN [invoked |-> <<[callback |-> l.callback, story |-> story, inZone |-> TRUE]>>,
          reloads |-> 0]
  ELSE [invoked |-> <<>>, reloads |-> 1]

NoEvent == [bridge |-> 0, action |-> "", story |-> "", effects |-> <<>>]

LiveOp(op, result, via) == [op |-> op, result |-> result, via |-> via]

(***************************************************************************)
(* Actions of LivePreviewService                                           *)
(***************************************************************************)
\* enable(callback), up to `await this.getBridge()`; getBridge and loadBridge
\* run inside it up to loadBridge's `await import(...)`.
Enable(callback) ==
  /\ calls < MaxCalls
  /\ calls' = calls + 1
  /\ IF EnableEntry = "return"
       THEN /\ liveOp' = LiveOp("enable", "resolved", "none")
            /\ UNCHANGED <<bridgePromise, bridgeImports, awaiting>>
     ELSE IF EnableEntry = "throw"
       THEN /\ liveOp' = LiveOp("enable", "LivePreviewNotEnabledError", "none")
            /\ UNCHANGED <<bridgePromise, bridgeImports, awaiting>>
     ELSE IF getBridge = "null"
       THEN /\ liveOp' = LiveOp("enable", "resolved", "null")
            /\ UNCHANGED <<bridgePromise, bridgeImports, awaiting>>
     ELSE IF getBridge = "load"
       THEN /\ bridgePromise' = "pending"
            /\ bridgeImports' = bridgeImports + 1
            /\ awaiting' = Append(awaiting, callback)
            /\ liveOp' = LiveOp("enable", "pending", "load")
     ELSE /\ awaiting' = Append(awaiting, callback)
          /\ liveOp' = LiveOp("enable", "pending", getBridge)
          /\ UNCHANGED <<bridgePromise, bridgeImports>>
  /\ UNCHANGED <<richVars, ngDevMode, blokVars, platformId, isEnabled, config, bridge,
                 bridgeInstances, legacyAwaiting, legacyImports, sdkBridgeCalls,
                 bridgesConstructed, listeners, lastEvent>>

\* The import of loadBridge is fulfilled: the bridge is constructed and
\* bridgePromise fulfilled with it.
ImportResolves ==
  /\ bridgePromise = "pending"
  /\ bridgesConstructed' = bridgesConstructed + 1
  /\ bridgeInstances' = bridgeInstances + 1
  /\ bridge' = bridgesConstructed + 1
  /\ bridgePromise' = "fulfilled"
  /\ liveOp' = LiveOp("loadBridge", "resolved", "none")
  /\ UNCHANGED <<richVars, ngDevMode, blokVars, platformId, isEnabled, config, bridgeImports,
                 awaiting, legacyAwaiting, legacyImports, sdkBridgeCalls,
                 listeners, calls, lastEvent>>

\* The import of loadBridge is rejected, and bridgePromise with it.
ImportRejects ==
  /\ bridgePromise = "pending"
  /\ bridgePromise' = "rejected"
  /\ liveOp' = LiveOp("loadBridge", "rejected", "none")
  /\ UNCHANGED <<richVars, ngDevMode, blokVars, platformId, isEnabled, config, bridge,
                 bridgeImports, bridgeInstances, awaiting, legacyAwaiting,
                 legacyImports, sdkBridgeCalls, bridgesConstructed, listeners,
                 calls, lastEvent>>

\* enable() continues after its await: bridge.on(...), or the rejection of
\* the import passed on to the caller.
EnableResumes ==
  /\ awaiting # <<>>
  /\ bridgePromise \in {"fulfilled", "rejected"}
  /\ awaiting' = Tail(awaiting)
  /\ IF bridgePromise = "fulfilled"
       THEN /\ listeners' = Append(listeners,
                 [bridge |-> bridge, callback |-> Head(awaiting),
                  autoReload |-> autoReload(config), by |-> "LivePreviewService"])
            /\ liveOp' = LiveOp("enable.on", "resolved", "none")
       ELSE /\ liveOp' = LiveOp("enable.on", "rejected", "none")
            /\ UNCHANGED listeners
  /\ UNCHANGED <<richVars, ngDevMode, blokVars, platformId, isEnabled, config, bridge,
                 bridgePromise, bridgeImports, bridgeInstances, legacyAwaiting,
                 legacyImports, sdkBridgeCalls, bridgesConstructed, calls, lastEvent>>

(***************************************************************************)
(* Actions of StoryblokService                                             *)
(***************************************************************************)
\* enableLivePreview(storyId, callback, options) of storyblok.service.ts.
enableLivePreview(callback) ==
  /\ calls < MaxCalls
  /\ calls' = calls + 1
  /\ sdkBridgeCalls' = IF isBrowser THEN sdkBridgeCalls + 1 ELSE sdkBridgeCalls
  /\ liveOp' = LiveOp("enableLivePreview", "returned", "none")
  /\ UNCHANGED <<richVars, ngDevMode, blokVars, platformId, isEnabled, config, bridge,
                 bridgePromise, bridgeImports, bridgeInstances, awaiting,
                 legacyAwaiting, legacyImports, bridgesConstructed, listeners,
                 lastEvent>>

\* The deprecated asynchronous enableLivePreview(callback, options), up to
\* its `await import(...)`.
enableLivePreviewDeprecated(callback) ==
  /\ calls < MaxCalls
  /\ calls' = calls + 1
  /\ IF ~isBrowser
       THEN /\ liveOp' = LiveOp("enableLivePreview.deprecated", "resolved", "none")
            /\ UNCHANGED <<legacyAwaiting, legacyImports>>
       ELSE /\ legacyImports' = legacyImports + 1
            /\ legacyAwaiting' = Append(legacyAwaiting, callback)
            /\ liveOp' = LiveOp("enableLivePreview.deprecated", "pending",
                                IF ngDevMode THEN "warn" ELSE "none")
  /\ UNCHANGED <<richVars, ngDevMode, blokVars, platformId, isEnabled, config, bridge,
                 bridgePromise, bridgeImports, bridgeInstances, awaiting,
                 sdkBridgeCalls, bridgesConstructed, listeners, lastEvent>>

\* Its import is fulfilled: a bridge of its own, and a handler on it.
LegacyImportResolves ==
  /\ legacyAwaiting # <<>>
  /\ legacyAwaiting' = Tail(legacyAwaiting)
  /\ bridgesConstructed' = bridgesConstructed + 1
  /\ listeners' = Append(listeners,
       [bridge |-> bridgesConstructed + 1, callback |-> Head(legacyAwaiting),
        autoReload |-> TRUE, by |-> "StoryblokService"])
  /\ liveOp' = LiveOp("enableLivePreview.on", "resolved", "none")
  /\ UNCHANGED <<richVars, ngDevMode, blokVars, platformId, isEnabled, config, bridge,
                 bridgePromise, bridgeImports, bridgeInstances, awaiting,
                 legacyImports, sdkBridgeCalls, calls, lastEvent>>

\* Its import is rejected, and the call with it.
LegacyImportRejects ==
  /\ legacyAwaiting # <<>>
  /\ legacyAwaiting' = Tail(legacyAwaiting)
  /\ liveOp' = LiveOp("enableLivePreview.on", "rejected", "none")
  /\ UNCHANGED <<richVars, ngDevMode, blokVars, platformId, isEnabled, config, bridge,
                 bridgePromise, bridgeImports, bridgeInstances, awaiting,
                 legacyImports, sdkBridgeCalls, bridgesConstructed, listeners,
                 calls, lastEvent>>

(***************************************************************************)
(* The Visual Editor sends an event to bridge b, which calls the handlers  *)
(* registered on it.                                                       *)
(***************************************************************************)
BridgeEvent(b, action, story) ==
  /\ b \in 1..bridgesConstructed
  /\ lastEvent' =
       [bridge |-> b, action |-> action, story |-> story,
        effects |-> [k \in 1..Len(listeners) |->
           IF listeners[k].bridge # b THEN NoEffect
           ELSE IF listeners[k].by = "LivePreviewService"
             THEN handler(listeners[k], action, story)
           ELSE legacyHandler(listeners[k], action, story)]]
  /\ liveOp' = LiveOp("event", "none", "none")
  /\ UNCHANGED <<richVars, ngDevMode, blokVars, platformId, isEnabled, config, bridge,
                 bridgePromise, bridgeImports, bridgeInstances, awaiting,
                 legacyAwaiting, legacyImports, sdkBridgeCalls,
                 bridgesConstructed, listeners, calls>>

(***************************************************************************)
(* SbRichTextComponent (lib/richtext.component.ts).                        *)
(* An HTML string is a sequence of tokens: single characters, tags, and    *)
(* the two fixed parts of a blok group marker. The digits of a marker are  *)
(* characters like those of a text.                                        *)
(***************************************************************************)
MarkerOpen == "<!--SB_BLOK_GROUP_"
MarkerClose == "-->"
DigitChars == <<"0", "1", "2", "3", "4", "5", "6", "7", "8", "9">>
IsDigit(c) == \E d \in 1..Len(DigitChars) : DigitChars[d] = c
IsSpace(c) == c = " "

\* The bloks a component node's body may hold.
RichBloks == {"blokA", "blokB"}

\* node.attrs.body: an array of bloks, or something that is no array.
NotArray == [isArray |-> FALSE, items |-> <<>>]
Bodies ==
  {NotArray} \cup
  {[isArray |-> TRUE, items |-> b] :
     b \in {<<>>, <<"blokA">>, <<"blokA", "blokB">>}}

TextNodes ==
  {[type |-> "text", text |-> t, body |-> NotArray, content |-> <<>>] :
     t \in {<<"a">>, <<" ">>, <<"7">>}}
BlokNodes ==
  {[type |-> "blok", text |-> <<>>, body |-> b, content |-> <<>>] : b \in Bodies}
ChildNodes ==
  {[type |-> "text", text |-> <<"a">>, body |-> NotArray, content |-> <<>>]} \cup
  {[type |-> "blok", text |-> <<>>, body |-> [isArray |-> TRUE, items |-> <<"blokB">>],
    content |-> <<>>]}
ParagraphNodes ==
  {[type |-> "paragraph", text |-> <<>>, body |-> NotArray, content |-> c] :
     c \in UNION {[1..k -> ChildNodes] : k \in 0..MaxChildren}}
Nodes == TextNodes \cup BlokNodes \cup ParagraphNodes

NullDoc == [type |-> "null", content |-> <<>>]
Docs ==
  {NullDoc} \cup
  {[type |-> "doc", content |-> c] : c \in UNION {[1..k -> Nodes] : k \in 0..MaxNodes}}

\* Decimal digits of n, as `${n}` writes them, and parseInt(digits, 10).
RECURSIVE ToDigits(_)
ToDigits(n) ==
  IF n < 10 THEN <<DigitChars[n + 1]>>
  ELSE ToDigits(n \div 10) \o <<DigitChars[(n % 10) + 1]>>

DigitValue(c) == (CHOOSE d \in 1..Len(DigitChars) : DigitChars[d] = c) - 1

RECURSIVE parseInt(_)
parseInt(digits) ==
  IF digits = <<>> THEN 0
  ELSE parseInt(SubSeq(digits, 1, Len(digits) - 1)) * 10 + DigitValue(digits[Len(digits)])

\* The BlockTypes.COMPONENT resolver: what it returns and what it leaves in
\* blokGroups.
componentResolver_indexIsLength(node, blokGroups) ==
  IF ~node.body.isArray \/ Len(node.body.items) = 0
    THEN [html |-> <<>>, blokGroups |-> blokGroups]
    ELSE LET pushed == Append(blokGroups, node.body.items)
         IN [html |-> <<MarkerOpen>> \o ToDigits(Len(pushed)) \o <<MarkerClose>>,
             blokGroups |-> pushed]

componentResolver(node, blokGroups) ==
  IF ~node.body.isArray \/ Len(node.body.items) = 0
    THEN [html |-> <<>>, blokGroups |-> blokGroups]
    ELSE LET pushed == Append(blokGroups, node.body.items)
         IN [html |-> <<MarkerOpen>> \o ToDigits(Len(pushed) - 1) \o <<MarkerClose>>,
             blokGroups |-> pushed]

\* richTextResolver(options).render: each node's HTML in document order, a
\* paragraph around that of its children, a component node through the
\* resolver above.
RECURSIVE render(_, _), renderAll(_, _)
render(node, blokGroups) ==
  IF node.type = "text" THEN [html |-> node.text, blokGroups |-> blokGroups]
  ELSE IF node.type = "blok" THEN componentResolver(node, blokGroups)
  ELSE LET inner == renderAll(node.content, blokGroups)
       IN [html |-> <<"<p>">> \o inner.html \o <<"</p>">>,
           blokGroups |-> inner.blokGroups]

renderAll(nodes, blokGroups) ==
  IF nodes = <<>> THEN [html |-> <<>>, blokGroups |-> blokGroups]
  ELSE LET first == render(Head(nodes), blokGroups)
           rest == renderAll(Tail(nodes), first.blokGroups)
       IN [html |-> first.html \o rest.html, blokGroups |-> rest.blokGroups]

\* Where the match of /<!--SB_BLOK_GROUP_(\d+)-->/ that starts at i ends, 0
\* when there is none.
MatchEnd(html, i) ==
  IF html[i] # MarkerOpen THEN 0
  ELSE LET stops == {j \in (i+1)..Len(html) : ~IsDigit(html[j])}
       IN IF stops = {} THEN 0
          ELSE LET j == CHOOSE x \in stops : \A y \in stops : x <= y
               IN IF j > i + 1 /\ html[j] = MarkerClose THEN j ELSE 0

\* html.split(/<!--SB_BLOK_GROUP_(\d+)-->/): the text before each match and
\* the digits it captured, in turn, and the text after the last match.
RECURSIVE split(_)
split(html) ==
  LET starts == {i \in 1..Len(html) : MatchEnd(html, i) # 0}
  IN IF starts = {} THEN <<html>>
     ELSE LET i == CHOOSE x \in starts : \A y \in starts : x <= y
              j == MatchEnd(html, i)
          IN <<SubSeq(html, 1, i - 1), SubSeq(html, i + 1, j - 1)>>
             \o split(SubSeq(html, j + 1, Len(html)))

\* String.prototype.trim
RECURSIVE trim(_)
trim(html) ==
  IF html = <<>> THEN <<>>
  ELSE IF IsSpace(Head(html)) THEN trim(Tail(html))
  ELSE IF IsSpace(html[Len(html)]) THEN trim(SubSeq(html, 1, Len(html) - 1))
  ELSE html

\* sanitize: the SafeHtml that Angular's DomSanitizer makes of this HTML. What
\* the sanitizer rewrites is not modelled: the value records its argument.
sanitize(html) == [safeHtml |-> html]

HtmlSegment(content) ==
  [type |-> "html", content |-> sanitize(content), blok |-> ""]
BlokSegment(blok) ==
  [type |-> "blok", content |-> sanitize(<<>>), blok |-> blok]

BlokSegments(bloks) == [k \in 1..Len(bloks) |-> BlokSegment(bloks[k])]

\* The loop over parts, from part i on.
RECURSIVE partsToSegments(_, _, _)
partsToSegments(parts, i, blokGroups) ==
  IF i > Len(parts) THEN <<>>
  ELSE (IF i % 2 = 1
          THEN \* even index of the 0-based array: HTML
               IF trim(parts[i]) # <<>> THEN <<HtmlSegment(trim(parts[i]))>> ELSE <<>>
          ELSE LET groupIndex == parseInt(parts[i])
               IN IF groupIndex + 1 \in DOMAIN blokGroups
                    THEN BlokSegments(blokGroups[groupIndex + 1])
                    ELSE <<>>)
       \o partsToSegments(parts, i + 1, blokGroups)

parseRichText(d) ==
  LET rendered == renderAll(d.content, <<>>)
  IN partsToSegments(split(rendered.html), 1, rendered.blokGroups)

\* The computed signal `segments`.
computeSegments(d) == IF d.type = "null" THEN <<>> ELSE parseRichText(d)

\* The host sets the doc input back to null: the computed signal is dirty
\* again and its old value is never served.
ClearDoc ==
  /\ doc # NullDoc
  /\ doc' = NullDoc
  /\ segments' = <<>>
  /\ segmentsFresh' = FALSE
  /\ UNCHANGED <<ngDevMode, blokVars, liveVars>>

\* The template reads segments(): the computed signal is evaluated.
ReadSegments ==
  /\ ~segmentsFresh
  /\ segments' = computeSegments(doc)
  /\ segmentsFresh' = TRUE
  /\ UNCHANGED <<doc, ngDevMode, blokVars, liveVars>>

RichInit ==
  /\ doc \in Docs
  /\ segments = <<>>
  /\ segmentsFresh = FALSE

RichIdle ==
  /\ doc = NullDoc
  /\ segments = <<>>
  /\ segmentsFresh = FALSE

(***************************************************************************)
(* Specifications                                                          *)
(***************************************************************************)
BlokInit ==
  /\ components \in {NoRegistry, WithRegistry}
  /\ sbBlok \in Bloks
  /\ effectDirty = TRUE
  /\ componentCache = <<>>
  /\ viewContainer = <<>>
  /\ currentComponentRef = 0
  /\ currentComponentName = NullName
  /\ pendingLoadId = 0
  /\ isDestroyed = FALSE
  /\ loads = <<>>
  /\ console = ""
  /\ lastOp = [op |-> "init", loader |-> NullName, loadId |-> 0, cleared |-> 0]

LiveInit(providers) ==
  /\ isEnabled = providers.enabled
  /\ config = providers.config
  /\ bridge = 0
  /\ bridgePromise = "null"
  /\ bridgeImports = 0
  /\ bridgeInstances = 0
  /\ awaiting = <<>>
  /\ legacyAwaiting = <<>>
  /\ legacyImports = 0
  /\ sdkBridgeCalls = 0
  /\ bridgesConstructed = 0
  /\ listeners = <<>>
  /\ calls = 0
  /\ lastEvent = NoEvent
  /\ liveOp = LiveOp("init", "none", "none")

\* One directive instance; the live preview services are not used.
InitBlok ==
  /\ ngDevMode \in BOOLEAN
  /\ BlokInit
  /\ platformId = "browser"
  /\ LiveInit(NoFeature)
  /\ RichIdle

NextBlok ==
  \/ \E blok \in Bloks : SetInput(blok)
  \/ RunEffect
  \/ \E i \in 1..MaxLoads : LoaderResolves(i)
  \/ \E i \in 1..MaxLoads : LoaderRejects(i)
  \/ Destroy

SpecBlok == InitBlok /\ [][NextBlok]_vars

\* The two services under every configuration; the directive shows a null blok.
InitLive ==
  /\ ngDevMode \in BOOLEAN
  /\ platformId \in {"browser", "server"}
  /\ \E providers \in Providers : LiveInit(providers)
  /\ BlokInit
  /\ components = NoRegistry
  /\ sbBlok = NullBlok
  /\ RichIdle

NextLive ==
  \/ \E callback \in Callbacks : Enable(callback)
  \/ ImportResolves
  \/ ImportRejects
  \/ EnableResumes
  \/ \E callback \in Callbacks : enableLivePreview(callback)
  \/ \E callback \in Callbacks : enableLivePreviewDeprecated(callback)
  \/ LegacyImportResolves
  \/ LegacyImportRejects
  \/ \E b \in 1..MaxCalls, action \in EventActions, story \in Stories :
       BridgeEvent(b, action, story)

SpecLive == InitLive /\ [][NextLive]_vars

\* One SbRichTextComponent over every document within the bounds.
InitRich ==
  /\ RichInit
  /\ ngDevMode = TRUE
  /\ BlokInit
  /\ components = NoRegistry
  /\ sbBlok = NullBlok
  /\ platformId = "browser"
  /\ LiveInit(NoFeature)

NextRich ==
  \/ ReadSegments
  \/ ClearDoc

SpecRich == InitRich /\ [][NextRich]_vars

(***************************************************************************)
(* Properties of SbBlokDirective                                           *)
(***************************************************************************)
\* The load with the highest loadId for this name was rejected.
LastLoadFailed(name) ==
  \E i \in 1..Len(loads) :
    /\ loads[i].componentName = name
    /\ loads[i].status = "failed"
    /\ \A j \in (i+1)..Len(loads) : loads[j].componentName # name

\* The effect has processed the latest input and nothing is being loaded.
Settled == ~isDestroyed /\ ~effectDirty /\ InFlight = {}

Unregistered(blok) ==
  ~NoComponent(blok) /\ components.provided /\ ~HasEntry(blok.component)

ViewEmpty ==
  viewContainer = <<>> /\ currentComponentRef = 0 /\ currentComponentName = NullName

\* C2: after handleBlokChange has processed a null, undefined or
\* component-less blok, or any blok when no registry is provided, the view
\* container is empty, currentComponentRef and currentComponentName are null,
\* and no loader was invoked.
C2_NullBlokCleansUp ==
  (lastOp.op = "effect" /\ (NoComponent(sbBlok) \/ ~components.provided))
  => ViewEmpty /\ lastOp.loader = NullName /\ lastOp.loadId = 0

C2_Witness ==
  /\ lastOp.op = "effect" /\ ~isDestroyed
  /\ NoComponent(sbBlok) /\ components.provided
  /\ lastOp.cleared > 0
  /\ ViewEmpty

\* C3: when handleBlokChange receives a blok whose component name is not in
\* the registry it warns on the console in development mode (and only then),
\* invokes no loader and removes what was rendered; and while the input names
\* no registered component an empty container stays empty, whatever loads
\* settle meanwhile.
C3_UnregisteredStep ==
  (lastOp'.op = "effect" /\ ~isDestroyed /\ Unregistered(sbBlok))
  => /\ viewContainer' = <<>>
     /\ currentComponentRef' = 0
     /\ currentComponentName' = NullName
     /\ console' = (IF ngDevMode THEN "warn" ELSE "")
     /\ lastOp'.loader = NullName
     /\ loads' = loads

C3_StaysEmpty ==
  (/\ viewContainer = <<>>
   /\ NoComponent(sbBlok) \/ ~HasEntry(sbBlok.component)
   /\ NoComponent(sbBlok') \/ ~HasEntry(sbBlok'.component))
  => viewContainer' = <<>>

RejectStep == lastOp'.op = "loaderRejected"

RejectedName == loads[lastOp'.loadId].componentName

\* The loader of this name has rejected before.
HasFailed(name) ==
  \E i \in 1..Len(loads) :
    loads[i].componentName = name /\ loads[i].status = "failed"

\* The effect step's blok needs a component that is lazy and not cached.
NeedsLoad(blok) ==
  /\ ~isDestroyed
  /\ ~NoComponent(blok)
  /\ HasEntry(blok.component)
  /\ isComponentLoader(components.entries[blok.component])
  /\ blok.component \notin DOMAIN componentCache

C4_RejectIsLoggedOnly ==
  RejectStep
  => /\ console' = "error"
     /\ viewContainer' = viewContainer
     /\ currentComponentRef' = currentComponentRef
     /\ currentComponentName' = currentComponentName

C4_RetryAfterFailure ==
  (lastOp'.op = "effect" /\ NeedsLoad(sbBlok) /\ HasFailed(sbBlok.component))
  => /\ lastOp'.loader = sbBlok.component
     /\ lastOp'.loadId \in InFlight'

\* C4 as claimed: a rejected loader is logged as a console error, creates no
\* component and leaves the component cache without an entry for that name.
C4_Original ==
  [][C4_RejectIsLoggedOnly /\ (RejectStep => RejectedName \notin DOMAIN componentCache')]_vars

\* C4 as amended: a rejected loader is logged as a console error, creates no
\* component and leaves the component cache as it was (it adds no entry); a
\* later effect run that needs the same name while the cache has no entry for
\* it invokes the loader again.
C4_FailedImport ==
  [][/\ C4_RejectIsLoggedOnly
     /\ RejectStep => componentCache' = componentCache
     /\ C4_RetryAfterFailure]_vars

C4_Witness ==
  /\ lastOp.op = "effect"
  /\ lastOp.loader = sbBlok.component
  /\ HasFailed(sbBlok.component)
  /\ sbBlok.component \notin DOMAIN componentCache
  /\ viewContainer = <<>>

(***************************************************************************)
(* Properties of LivePreviewService and StoryblokService                   *)
(***************************************************************************)
\* The handlers registered by LivePreviewService.enable().
ServiceListeners ==
  {k \in 1..Len(listeners) : listeners[k].by = "LivePreviewService"}

\* The handlers of enable() that received the last event.
ServiceHandlersOfLastEvent ==
  {k \in DOMAIN lastEvent.effects :
     listeners[k].by = "LivePreviewService" /\ listeners[k].bridge = lastEvent.bridge}

\* LivePreviewService has imported nothing, built nothing, registered nothing.
ServiceUntouched ==
  /\ bridge = 0
  /\ bridgePromise = "null"
  /\ bridgeImports = 0
  /\ bridgeInstances = 0
  /\ awaiting = <<>>
  /\ ServiceListeners = {}

C6_NotEnabledProd ==
  (~isEnabled /\ ~ngDevMode)
  => /\ liveOp.op = "enable" => liveOp.result = "resolved"
     /\ ServiceUntouched
     /\ ServiceHandlersOfLastEvent = {}

C6_Witness ==
  /\ ~isEnabled /\ ~ngDevMode /\ platformId = "browser"
  /\ liveOp.op = "enable"
  /\ calls > 1

C8_AtMostOne ==
  /\ bridgeImports <= 1
  /\ bridgeInstances <= 1
  /\ bridgeInstances <= bridgeImports
  /\ bridgeImports = 0 <=> bridgePromise = "null"
  /\ bridge # 0 <=> bridgeInstances = 1

C8_OnlyOnDemand ==
  /\ bridgeImports' # bridgeImports =>
       liveOp'.op = "enable" /\ platformId = "browser" /\ isEnabled
  /\ bridgeInstances' # bridgeInstances =>
       liveOp'.op = "loadBridge" /\ bridgePromise = "pending"

C8_LazyOnce == []C8_AtMostOne /\ [][C8_OnlyOnDemand]_vars

\* An enable() call issued while the first import is pending.
C8_Witness ==
  /\ liveOp.op = "enable"
  /\ liveOp.via = "promise"
  /\ bridgePromise = "pending"
  /\ Len(awaiting) = 2
  /\ bridgeImports = 1

\* C9: every handler registered by enable(callback) answers an 'input' event
\* by invoking its callback exactly once, with the event's story, inside
\* NgZone.run, and asks for no reload, whatever autoReload is.
C9_InputInvokesCallback ==
  lastEvent.action = "input"
  => \A k \in ServiceHandlersOfLastEvent :
       /\ lastEvent.effects[k].invoked =
            <<[callback |-> listeners[k].callback, story |-> lastEvent.story,
               inZone |-> TRUE]>>
       /\ lastEvent.effects[k].reloads = 0

C9_Witness ==
  /\ lastEvent.action = "input"
  /\ Cardinality(ServiceHandlersOfLastEvent) = 2
  /\ \E k \in ServiceHandlersOfLastEvent : listeners[k].autoReload

\* C10: every handler registered by enable() answers a 'published' or
\* 'change' event without invoking its callback, and reloads the page exactly
\* when config.autoReload is not false (no config, or no autoReload field,
\* counting as true).
C10_ReloadIffAutoReload ==
  lastEvent.action \in {"published", "change"}
  => \A k \in ServiceHandlersOfLastEvent :
       /\ lastEvent.effects[k].invoked = <<>>
       /\ lastEvent.effects[k].reloads =
            (IF config.provided /\ config.autoReload = "false" THEN 0 ELSE 1)

C10_Witness ==
  /\ lastEvent.action = "change"
  /\ ServiceHandlersOfLastEvent # {}
  /\ config = EmptyConfig
  /\ \A k \in ServiceHandlersOfLastEvent : lastEvent.effects[k].reloads = 1

(***************************************************************************)
(* Superseded loads                                                        *)
(***************************************************************************)
\* A step in which the loader of load lastOp'.loadId resolves.
ResolveStep == lastOp'.op = "loaderResolved"

\* The load that resolves is the latest one started and the input still
\* names the component it loaded.
StillWanted ==
  /\ lastOp'.loadId = pendingLoadId
  /\ ~NoComponent(sbBlok)
  /\ sbBlok.component = loads[lastOp'.loadId].componentName

C12_ResolveStep ==
  ResolveStep
  => /\ Len(viewContainer') > Len(viewContainer) => StillWanted
     /\ ~StillWanted =>
          /\ viewContainer' = viewContainer
          /\ currentComponentRef' = currentComponentRef
          /\ currentComponentName' = currentComponentName
     /\ Len(viewContainer') \in {Len(viewContainer), Len(viewContainer) + 1}

\* C12: when a loader resolves, a component is created only if the load is
\* the latest one started (loadId = pendingLoadId) and the current sbBlok
\* value still names the loaded component; every other resolution leaves the
\* view container and the current component as they were.
C12_SupersededNeverRenders == [][C12_ResolveStep]_vars

\* A superseded load of the component the input still names has resolved,
\* and nothing was rendered.
C12_Witness ==
  /\ lastOp.op = "loaderResolved"
  /\ ~isDestroyed
  /\ lastOp.loadId < pendingLoadId
  /\ ~NoComponent(sbBlok)
  /\ sbBlok.component = loads[lastOp.loadId].componentName
  /\ viewContainer = <<>>

(***************************************************************************)
(* Properties of SbRichTextComponent                                       *)
(***************************************************************************)
\* The document read in order: HTML tokens, and the body of every component
\* node whose body is a non-empty array.
RECURSIVE InOrder(_)
InOrder(nodes) ==
  IF nodes = <<>> THEN <<>>
  ELSE LET node == Head(nodes)
       IN (IF node.type = "text"
             THEN [k \in 1..Len(node.text) |-> [html |-> node.text[k], bloks |-> <<>>]]
           ELSE IF node.type = "blok"
             THEN (IF node.body.isArray /\ node.body.items # <<>>
                     THEN <<[html |-> "", bloks |-> node.body.items]>>
                     ELSE <<>>)
           ELSE <<[html |-> "<p>", bloks |-> <<>>]>> \o InOrder(node.content)
                \o <<[html |-> "</p>", bloks |-> <<>>]>>)
          \o InOrder(Tail(nodes))

\* The HTML collected since the last component node, as a segment if
\* anything is left of it after trimming.
Flush(run) ==
  LET isSpace(k) == run[k] = " "
      kept == {k \in 1..Len(run) : ~isSpace(k)}
  IN IF kept = {} THEN <<>>
     ELSE LET lo == CHOOSE k \in kept : \A m \in kept : k <= m
              hi == CHOOSE k \in kept : \A m \in kept : k >= m
          IN <<[type |-> "html", content |-> [safeHtml |-> SubSeq(run, lo, hi)],
                blok |-> ""]>>

\* The segments the document order asks for.
RECURSIVE InOrderSegments(_, _)
InOrderSegments(items, run) ==
  IF items = <<>> THEN Flush(run)
  ELSE LET item == Head(items)
       IN IF item.bloks = <<>>
            THEN InOrderSegments(Tail(items), Append(run, item.html))
            ELSE Flush(run)
                 \o [k \in 1..Len(item.bloks) |->
                       [type |-> "blok", content |-> [safeHtml |-> <<>>],
                        blok |-> item.bloks[k]]]
                 \o InOrderSegments(Tail(items), <<>>)

\* C11: parseRichText yields the segments in document order: the bloks of
\* every component node whose body is a non-empty array, in node order and
\* body order, each once; nothing for the other component nodes; and between
\* them the HTML rendered there, trimmed, unless nothing is left of it.
C11_SegmentsInDocumentOrder ==
  (segmentsFresh /\ doc.type = "doc")
  => segments = InOrderSegments(InOrder(doc.content), <<>>)

\* Two component nodes with HTML between them, one of them inside a
\* paragraph, and a body of two bloks.
C11_Witness ==
  /\ segmentsFresh
  /\ doc.type = "doc"
  /\ Len(segments) = 5
  /\ segments[1].type = "html"
  /\ segments[2].type = "blok" /\ segments[2].blok = "blokB"
  /\ segments[3].type = "html"
  /\ segments[4].type = "blok" /\ segments[4].blok = "blokA"
  /\ segments[5].type = "blok" /\ segments[5].blok = "blokB"

====
